---------------------------- MODULE Spec2Model ----------------------------
(***************************************************************************)
(* A model of microsynteny.py: main's clamp of the minimum block size,     *)
(* synteny_walk (the scan over scaffolds, anchors, candidates and next     *)
(* genes, the block output and the closing statistics) and randomize_genes.*)
(*                                                                         *)
(* Gene ids, reference gene ids and scaffold names are small naturals;     *)
(* the order of the naturals stands for the order of the names (sorted()   *)
(* on scaffold names) and for dict insertion order (the stable sorts).     *)
(* The diagnostic counters splitgenes, lastmatch and basetotal and the     *)
(* stderr lines are left out: nothing in the walk reads them.              *)
(***************************************************************************)
EXTENDS Integers, Sequences, FiniteSets, TLC

(***************************************************************************)
(* Bounds of the model.                                                    *)
(***************************************************************************)
\* -s/--span is drawn from 0..MaxSpan
MaxSpan == 2
\* -m/--minimum is drawn from 1..MaxMinimum
MaxMinimum == 3
\* randomize_genes: the gene ids of the query indices are drawn from
\* 1..MaxRandGenes
MaxRandGenes == 3

\* the values -z/--distance is drawn from
Distances == {15, 250}

(***************************************************************************)
(* The inputs.                                                             *)
(***************************************************************************)
\* querygene = namedtuple("querygene", "start end strand"), one per gene id;
\* the ids are not in coordinate order, so that the sort by start reorders
QueryGeneModel ==
    [g \in 1..4 |->
        CASE g = 1 -> [start |-> 20,  end |-> 30]
          [] g = 2 -> [start |-> 0,   end |-> 10]
          [] g = 3 -> [start |-> 40,  end |-> 50]
          [] OTHER -> [start |-> 100, end |-> 110]]

\* refgene = namedtuple("refgene", "scaffold start end strand")
RefGeneModel ==
    [r \in 1..5 |->
        CASE r = 1 -> [scaffold |-> "A", start |-> 10,  end |-> 20]
          [] r = 2 -> [scaffold |-> "A", start |-> 30,  end |-> 40]
          [] r = 3 -> [scaffold |-> "A", start |-> 200, end |-> 210]
          [] r = 4 -> [scaffold |-> "A", start |-> 220, end |-> 230]
          [] OTHER -> [scaffold |-> "B", start |-> 10,  end |-> 20]]

Restrict(f, S) == [x \in S |-> f[x]]

VARIABLES
    args,                   \* the parsed command line: minimum, span, distance
    querydict,              \* scaffold -> (gene id -> querygene)
    blastdict,              \* gene id -> hits in insertion order, <<ref, score>>
    refdict,                \* ref gene id -> refgene
    pc,                     \* the position in main / synteny_walk
    min_block,              \* synteny_walk's parameter
    scaffolds_done,         \* the scaffolds the outer loop has taken
    scaffold,               \* the current scaffold
    i,                      \* enumerate(orderedtranslist) index, from 1
    c,                      \* index of the current hit of the sorted hits, from 1
    k,                      \* index of next_gene in orderedtranslist
    walksteps,
    querypos,
    subjectpos,
    refscaffold,
    syntenylist,
    accounted_query_genes,
    accounted_before,       \* accounted_query_genes as the current chain was started
    blocknum,
    blocklengths,
    scaffoldgenecounts,
    wayout,                 \* the blocks written, in order
    exit,                   \* how the run ended
    genepositions,          \* randomize_genes: gene id -> querygene
    randomgenelist,         \* randomize_genes: the list that is shuffled
    randomgenesbyscaf,      \* randomize_genes: the index returned
    distance_hi,            \* the raised -z of the comparison of two walks
    chain_lo,               \* the walk under args.distance
    chain_hi                \* the same walk under distance_hi

vars == <<args, querydict, blastdict, refdict, pc, min_block, scaffolds_done,
          scaffold, i, c, k, walksteps, querypos, subjectpos, refscaffold,
          syntenylist, accounted_query_genes, accounted_before, blocknum, blocklengths,
          scaffoldgenecounts, wayout, exit, genepositions, randomgenelist,
          randomgenesbyscaf, distance_hi, chain_lo, chain_hi>>

randvars == <<genepositions, randomgenelist, randomgenesbyscaf>>
monovars == <<distance_hi, chain_lo, chain_hi>>

inputs == <<args, querydict, blastdict, refdict>>

(***************************************************************************)
(* Helpers for Python's dicts and sorts.                                   *)
(***************************************************************************)
\* d[key] += 1 on a defaultdict(int)
Incr(d, key) ==
    IF key \in DOMAIN d
    THEN [d EXCEPT ![key] = @ + 1]
    ELSE [x \in DOMAIN d \cup {key} |-> IF x = key THEN 1 ELSE d[x]]

\* sorted(transdict.items(), key=lambda x: x[1].start): the gene ids by
\* ascending start; the sort is stable, equal starts keep insertion order
OrderedTransList(transdict) ==
    LET genes == DOMAIN transdict
        Before(a, b) == \/ transdict[a].start < transdict[b].start
                        \/ transdict[a].start = transdict[b].start /\ a < b
        Rank(g) == 1 + Cardinality({h \in genes : Before(h, g)})
    IN  [j \in 1..Cardinality(genes) |-> CHOOSE g \in genes : Rank(g) = j]

\* mutant: reverse=True is left out, the hits come by ascending score
SortedHits_Ascending(hits) ==
    LET n == Len(hits)
        Before(a, b) == \/ hits[a][2] < hits[b][2]
                        \/ hits[a][2] = hits[b][2] /\ a < b
        Rank(a) == 1 + Cardinality({b \in 1..n : Before(b, a)})
    IN  [j \in 1..n |-> hits[CHOOSE a \in 1..n : Rank(a) = j]]

\* sorted(d.items(), key=lambda x: x[1], reverse=True): the hits by descending
\* score; reverse=True keeps the stable order of equal scores
SortedHits(hits) ==
    LET n == Len(hits)
        Before(a, b) == \/ hits[a][2] > hits[b][2]
                        \/ hits[a][2] = hits[b][2] /\ a < b
        Rank(a) == 1 + Cardinality({b \in 1..n : Before(b, a)})
    IN  [j \in 1..n |-> hits[CHOOSE a \in 1..n : Rank(a) = j]]

\* sorted(querydict.items(), key=lambda x: x[0]): the next scaffold to visit
RemainingScaffolds == DOMAIN querydict \ scaffolds_done
NextScaffoldName ==
    CHOOSE s \in RemainingScaffolds : \A t \in RemainingScaffolds : s <= t

(***************************************************************************)
(* main: the clamp of -m and the call of synteny_walk.                     *)
(***************************************************************************)
\* mutant: the clamp is left out
ClampMinimum_None(m) == m

ClampMinimum(m) == IF m < 2 THEN 2 ELSE m

max_span == args.span
max_distance == args.distance

(***************************************************************************)
(* The walk over the next genes.  A walk state w holds what the loop body  *)
(* reads and writes: walksteps, querypos, subjectpos, syntenylist,         *)
(* accounted (accounted_query_genes), broke (the loop was left by a break) *)
(* and toofar (the walk ignored a match as too far, the "#4 ... is too     *)
(* far" line of the verbose output).                                       *)
(***************************************************************************)
\* mutant: only the forward distance is tested
TooFar_ForwardOnly(next_ref_pos, spos, dist) == next_ref_pos[1] - spos[2] > dist

\* the reference distance test of one candidate
TooFar(next_ref_pos, spos, dist) ==
    LET dist_to_next_ref == next_ref_pos[1] - spos[2]
        dist_to_prev_ref == spos[1] - next_ref_pos[2]
    IN  dist_to_next_ref > dist \/ dist_to_prev_ref > dist

\* mutant: the scaffold test is left out
ScaffoldsMatch_Any(next_ref_scaf, rscaf) == TRUE

\* the scaffold test of one candidate
ScaffoldsMatch(next_ref_scaf, rscaf) == next_ref_scaf = rscaf

\* the same-homolog test of one candidate
SameHomolog(next_match, blast_refgene, synlist) == next_match = blast_refgene

\* the scan of next_gene's hits: the index of the hit that is appended
\* (0: none, the for loop runs into its else) and whether the same-homolog
\* branch was taken before the scan ended
ScanMatches(hits, blast_refgene, rscaf, spos, synlist, dist) ==
    LET Usable(j) ==
            /\ ~SameHomolog(hits[j][1], blast_refgene, synlist)
            /\ ScaffoldsMatch(refdict[hits[j][1]].scaffold, rscaf)
            /\ ~TooFar(<<refdict[hits[j][1]].start, refdict[hits[j][1]].end>>,
                       spos, dist)
        usable == {j \in 1..Len(hits) : Usable(j)}
        first == IF usable = {} THEN 0
                 ELSE CHOOSE j \in usable : \A j2 \in usable : j <= j2
        Scanned(j) == first = 0 \/ j < first
    IN  [accepted |-> first,
         toofar |-> \E j \in 1..Len(hits) :
                       /\ Scanned(j)
                       /\ ~SameHomolog(hits[j][1], blast_refgene, synlist)
                       /\ ScaffoldsMatch(refdict[hits[j][1]].scaffold, rscaf)
                       /\ TooFar(<<refdict[hits[j][1]].start,
                                   refdict[hits[j][1]].end>>, spos, dist),
         continued |-> \E j \in 1..Len(hits) :
                          /\ SameHomolog(hits[j][1], blast_refgene, synlist)
                          /\ Scanned(j)]

\* mutant: the comparison of the query distance is turned around
QueryTooFar_Flipped(dist_to_next_query, dist) == dist_to_next_query < dist

\* the query distance test of the next gene
QueryTooFar(dist_to_next_query, dist) == dist_to_next_query > dist

\* walksteps after a gene without an accepted match
Decrement(ws) == ws - 1

\* mutant: the walk stops one step early
BudgetLeft_OffByOne(ws) == ws > 1

\* whether the walk may look at the next gene at all
BudgetLeft(ws) == ws > 0

\* one pass of "for next_gene, next_gene_info in orderedtranslist[i+1:]"
StepGene(w, next_gene, transdict, blast_refgene, rscaf, span, dist) ==
    IF ~BudgetLeft(w.walksteps)
    THEN [w EXCEPT !.broke = TRUE]
    ELSE IF QueryTooFar(transdict[next_gene].start - w.querypos[2], dist)
    THEN [w EXCEPT !.broke = TRUE]
    ELSE
      LET qp == <<transdict[next_gene].start, transdict[next_gene].end>>
      IN  IF next_gene \notin DOMAIN blastdict
          THEN [w EXCEPT !.querypos = qp, !.walksteps = Decrement(@)]
          ELSE
            LET hits == SortedHits(blastdict[next_gene])
                scan == ScanMatches(hits, blast_refgene, rscaf, w.subjectpos,
                                    w.syntenylist, dist)
                acc1 == IF scan.continued
                        THEN w.accounted \cup {next_gene} ELSE w.accounted
            IN  IF scan.accepted # 0
                THEN LET next_match == hits[scan.accepted][1]
                     IN  [w EXCEPT
                            !.querypos = qp,
                            !.toofar = @ \/ scan.toofar,
                            !.walksteps = span,
                            !.subjectpos = <<refdict[next_match].start,
                                             refdict[next_match].end>>,
                            !.accounted = acc1 \cup {next_gene},
                            !.syntenylist = Append(@, <<next_gene, next_match>>)]
                ELSE [w EXCEPT !.querypos = qp,
                               !.toofar = @ \/ scan.toofar,
                               !.walksteps = Decrement(@),
                               !.accounted = acc1]

\* the whole for loop over orderedtranslist[i+1:], from index j on
RECURSIVE WalkFrom(_, _, _, _, _, _, _, _)
WalkFrom(w, j, ordered, transdict, blast_refgene, rscaf, span, dist) ==
    IF j > Len(ordered) \/ w.broke
    THEN w
    ELSE WalkFrom(StepGene(w, ordered[j], transdict, blast_refgene, rscaf,
                           span, dist),
                  j + 1, ordered, transdict, blast_refgene, rscaf, span, dist)

(***************************************************************************)
(* The initial states: the command line and the three parsed inputs.       *)
(***************************************************************************)
\* hit lists of one query gene, in file order, as <<reference gene, bitscore>>
HitLists ==
    { << >>,
      << <<1, 5>> >>,
      << <<2, 5>> >>,
      << <<3, 5>> >>,
      << <<5, 5>> >>,
      << <<1, 5>>, <<3, 3>> >>,
      << <<4, 3>>, <<2, 5>> >>,
      << <<5, 5>>, <<1, 5>> >>,
      << <<1, 5>>, <<5, 7>> >> }

\* the hit lists of gene 4, which only the two-scaffold index holds
HitListsOfLast == { << >>, << <<2, 5>> >> }

\* query indices: scaffold -> gene ids
QueryLayouts ==
    { (1 :> {1, 2, 3}),
      (1 :> {1, 2}) @@ (2 :> {3, 4}) }

QueryDictOf(layout) ==
    [s \in DOMAIN layout |-> [g \in layout[s] |-> QueryGeneModel[g]]]

GenesOf(qd) == UNION {DOMAIN qd[s] : s \in DOMAIN qd}

ArgSets ==
    [minimum : 1..MaxMinimum, span : 0..MaxSpan, distance : Distances]

\* parse_tabular_blast keeps a key only for a query with at least one hit
BlastDictOf(f) == Restrict(f, {g \in DOMAIN f : f[g] # << >>})

InitInputs ==
    /\ args \in ArgSets
    /\ refdict = RefGeneModel
    /\ \/ /\ querydict = << >>
          /\ blastdict = << >>
       \/ \E layout \in QueryLayouts :
            /\ querydict = QueryDictOf(layout)
            /\ \E f \in [GenesOf(querydict) \cap 1..3 -> HitLists],
                  l \in [GenesOf(querydict) \cap {4} -> HitListsOfLast] :
                 blastdict = BlastDictOf(f @@ l)

WalkLocals ==
    /\ min_block = 0
    /\ scaffolds_done = {}
    /\ scaffold = 0
    /\ i = 0
    /\ c = 0
    /\ k = 0
    /\ walksteps = 0
    /\ querypos = <<0, 1>>
    /\ subjectpos = <<0, 1>>
    /\ refscaffold = "None"
    /\ syntenylist = << >>
    /\ accounted_query_genes = {}
    /\ accounted_before = {}
    /\ blocknum = 1
    /\ blocklengths = << >>
    /\ scaffoldgenecounts = << >>
    /\ wayout = << >>
    /\ exit = "running"

InitRand ==
    /\ genepositions = << >>
    /\ randomgenelist = << >>
    /\ randomgenesbyscaf = << >>

InitMono ==
    /\ distance_hi = 0
    /\ chain_lo = << >>
    /\ chain_hi = << >>

InitWalk == pc = "main" /\ WalkLocals

Init == InitInputs /\ InitWalk /\ InitRand /\ InitMono

(***************************************************************************)
(* The actions: main, then the loops of synteny_walk.                      *)
(***************************************************************************)
transdict == querydict[scaffold]
orderedtranslist == OrderedTransList(transdict)
genesonscaff == Len(orderedtranslist)
startingtrans == orderedtranslist[i]
anchorhits == SortedHits(blastdict[startingtrans])
blast_refgene == anchorhits[c][1]

walkstate ==
    [walksteps |-> walksteps, querypos |-> querypos, subjectpos |-> subjectpos,
     syntenylist |-> syntenylist, accounted |-> accounted_query_genes,
     broke |-> FALSE, toofar |-> FALSE]

\* main: clamp args.minimum and call synteny_walk
Main ==
    /\ pc = "main"
    /\ min_block' = ClampMinimum(args.minimum)
    /\ pc' = "scaffold"
    /\ UNCHANGED <<randvars, monovars, inputs, scaffolds_done, scaffold, i, c, k, walksteps,
                   querypos, subjectpos, refscaffold, syntenylist,
                   accounted_query_genes, accounted_before, blocknum, blocklengths,
                   scaffoldgenecounts, wayout, exit>>

\* whether a scaffold of n genes is skipped
SkipScaffold(n, minb) == n < minb

\* for scaffold, transdict in sorted(querydict.items()): the next scaffold
NextScaffold ==
    /\ pc = "scaffold"
    /\ RemainingScaffolds # {}
    /\ LET s == NextScaffoldName
           n == Cardinality(DOMAIN querydict[s])
       IN  /\ scaffold' = s
           /\ scaffolds_done' = scaffolds_done \cup {s}
           /\ scaffoldgenecounts' = Incr(scaffoldgenecounts, n)
           /\ IF SkipScaffold(n, min_block)
              THEN /\ pc' = "scaffold"
                   /\ UNCHANGED <<i, accounted_query_genes, accounted_before>>
              ELSE /\ pc' = "gene"
                   /\ i' = 0
                   /\ accounted_query_genes' = {}
                   /\ accounted_before' = {}
    /\ UNCHANGED <<randvars, monovars, inputs, min_block, c, k, walksteps, querypos, subjectpos,
                   refscaffold, syntenylist, blocknum, blocklengths, wayout,
                   exit>>

\* for i, querygene_tuple in enumerate(orderedtranslist): the next anchor
NextGene ==
    /\ pc = "gene"
    /\ IF i >= genesonscaff
       THEN /\ pc' = "scaffold"
            /\ UNCHANGED <<i, c, walksteps, querypos>>
       ELSE LET g == orderedtranslist[i + 1]
            IN  /\ i' = i + 1
                /\ walksteps' = max_span
                /\ querypos' = <<transdict[g].start, transdict[g].end>>
                /\ c' = 0
                /\ pc' = IF g \in DOMAIN blastdict THEN "hit" ELSE "gene"
    /\ UNCHANGED <<randvars, monovars, inputs, min_block, scaffolds_done, scaffold, k, subjectpos,
                   refscaffold, syntenylist, accounted_query_genes, accounted_before, blocknum,
                   blocklengths, scaffoldgenecounts, wayout, exit>>

\* whether the anchor is skipped for the hit at hand
AnchorAccounted(g, accounted) == g \in accounted

\* for blast_refgene, bitscore1 in sorted(blastrefmatch_dict.items(), ...):
\* the next hit of the anchor, up to the start of its walk
NextHit ==
    /\ pc = "hit"
    /\ IF c >= Len(anchorhits)
       THEN /\ pc' = "gene"
            /\ UNCHANGED <<c, k, syntenylist, refscaffold, subjectpos,
                           accounted_before>>
       ELSE LET hit == anchorhits[c + 1][1]
            IN  /\ c' = c + 1
                /\ IF AnchorAccounted(startingtrans, accounted_query_genes)
                   THEN /\ pc' = "hit"
                        /\ UNCHANGED <<k, syntenylist, refscaffold, subjectpos,
                                       accounted_before>>
                   ELSE /\ syntenylist' = << <<startingtrans, hit>> >>
                        /\ accounted_before' = accounted_query_genes
                        /\ IF i < genesonscaff
                           THEN /\ refscaffold' = refdict[hit].scaffold
                                /\ subjectpos' = <<refdict[hit].start,
                                                   refdict[hit].end>>
                                /\ k' = i
                                /\ pc' = "walk"
                           ELSE /\ pc' = "hit"
                                /\ UNCHANGED <<k, refscaffold, subjectpos>>
    /\ UNCHANGED <<randvars, monovars, inputs, min_block, scaffolds_done, scaffold, i, walksteps,
                   querypos, accounted_query_genes, blocknum, blocklengths,
                   scaffoldgenecounts, wayout, exit>>

\* for next_gene, next_gene_info in orderedtranslist[i+1:]: one next gene; the
\* loop is left by a break or after its last gene
WalkStep ==
    /\ pc = "walk"
    /\ LET w == StepGene(walkstate, orderedtranslist[k + 1], transdict,
                         blast_refgene, refscaffold, max_span, max_distance)
       IN  /\ walksteps' = w.walksteps
           /\ querypos' = w.querypos
           /\ subjectpos' = w.subjectpos
           /\ syntenylist' = w.syntenylist
           /\ accounted_query_genes' = w.accounted
           /\ k' = IF w.broke THEN k ELSE k + 1
           /\ pc' = IF w.broke \/ k + 1 >= genesonscaff THEN "write" ELSE "walk"
    /\ UNCHANGED <<randvars, monovars, inputs, min_block, scaffolds_done, scaffold, i, c,
                   refscaffold, blocknum, blocklengths, scaffoldgenecounts,
                   wayout, exit, accounted_before>>

\* whether a chain of blocklen pairs is kept
KeepBlock(blocklen, minb) == blocklen >= minb

\* the block as it is written: its summary and its pairs
BlockOf(synlist) ==
    LET first == synlist[1]
        last == synlist[Len(synlist)]
        s0 == refdict[first[2]].start
        e0 == refdict[last[2]].end
    IN  [scaffold |-> scaffold,
         refscaffold |-> refscaffold,
         blocknum |-> blocknum,
         pairs |-> synlist,
         blocklen |-> Len(synlist),
         qblockstart |-> transdict[first[1]].start,
         qblockend |-> transdict[last[1]].end,
         strand |-> IF e0 > s0 THEN "+" ELSE "-",
         sblockstart |-> IF e0 > s0 THEN s0 ELSE e0,
         sblockend |-> IF e0 > s0 THEN e0 ELSE s0]

\* WRITE LONGEST MATCH: the chain is written as a block or dropped
WriteBlock ==
    /\ pc = "write"
    /\ IF KeepBlock(Len(syntenylist), min_block)
       THEN /\ blocklengths' = Incr(blocklengths, Len(syntenylist))
            /\ wayout' = Append(wayout, BlockOf(syntenylist))
            /\ blocknum' = blocknum + 1
       ELSE UNCHANGED <<blocklengths, wayout, blocknum>>
    /\ pc' = "hit"
    /\ UNCHANGED <<randvars, monovars, inputs, min_block, scaffolds_done, scaffold, i, c, k,
                   walksteps, querypos, subjectpos, refscaffold, syntenylist,
                   accounted_query_genes, accounted_before, scaffoldgenecounts, exit>>

\* how the closing statistics end the run: max() of no scaffold counts raises
\* ValueError; no block length recorded is the sys.exit
ExitOf(counts, lengths) ==
    IF DOMAIN counts = {} THEN "ValueError"
    ELSE IF Cardinality(DOMAIN lengths) = 0 THEN "NoSynteny"
    ELSE "ok"

\* the lines after the loops
Stats ==
    /\ pc = "scaffold"
    /\ RemainingScaffolds = {}
    /\ exit' = ExitOf(scaffoldgenecounts, blocklengths)
    /\ pc' = "done"
    /\ UNCHANGED <<randvars, monovars, inputs, min_block, scaffolds_done, scaffold, i, c, k,
                   walksteps, querypos, subjectpos, refscaffold, syntenylist,
                   accounted_query_genes, accounted_before, blocknum, blocklengths,
                   scaffoldgenecounts, wayout>>

Next ==
    \/ Main
    \/ NextScaffold
    \/ NextGene
    \/ NextHit
    \/ WalkStep
    \/ WriteBlock
    \/ Stats

Spec == Init /\ [][Next]_vars

(***************************************************************************)
(* randomize_genes.  A dict is iterated in insertion order, which the      *)
(* model takes to be ascending scaffold and ascending gene id.             *)
(***************************************************************************)
\* the (scaffold, gene id) entries of a dict of dicts in iteration order
EntriesOf(qd) ==
    LET es == {<<s, g>> : s \in DOMAIN qd, g \in GenesOf(qd)}
        entries == {e \in es : e[2] \in DOMAIN qd[e[1]]}
        Before(a, b) == a[1] < b[1] \/ (a[1] = b[1] /\ a[2] < b[2])
        Rank(e) == 1 + Cardinality({d \in entries : Before(d, e)})
    IN  [j \in 1..Cardinality(entries) |-> CHOOSE e \in entries : Rank(e) = j]

\* the first loop: genepositions[genename] = genedict[genename], the entry
\* written last stays
GenePositionsOf(qd) ==
    LET entries == EntriesOf(qd)
        LastOf(g) == CHOOSE j \in 1..Len(entries) :
                        /\ entries[j][2] = g
                        /\ \A j2 \in 1..Len(entries) :
                              entries[j2][2] = g => j2 <= j
    IN  [g \in GenesOf(qd) |-> qd[entries[LastOf(g)][1]][g]]

\* the second loop: randomgenesbyscaf[scaffold][randomgenelist[genecounter]]
\* = genepositions[genename], the assignment made last to a key stays
ReassignGenes(qd, names, positions) ==
    LET entries == EntriesOf(qd)
        At(s) == {j \in 1..Len(entries) : entries[j][1] = s}
        LastOf(s, name) == CHOOSE j \in At(s) :
                              /\ names[j] = name
                              /\ \A j2 \in At(s) : names[j2] = name => j2 <= j
    IN  [s \in DOMAIN qd |->
            [name \in {names[j] : j \in At(s)} |->
                positions[entries[LastOf(s, name)][2]]]]

\* lines 163-169: collect the gene names and their positions
RandCollect ==
    /\ pc = "rand_collect"
    /\ randomgenelist' = [j \in 1..Len(EntriesOf(querydict)) |->
                             EntriesOf(querydict)[j][2]]
    /\ genepositions' = GenePositionsOf(querydict)
    /\ pc' = "rand_shuffle"
    /\ UNCHANGED <<monovars, inputs, randomgenesbyscaf, min_block,
                   scaffolds_done, scaffold, i, c, k, walksteps, querypos,
                   subjectpos, refscaffold, syntenylist, accounted_query_genes, accounted_before,
                   blocknum, blocklengths, scaffoldgenecounts, wayout, exit>>

\* line 171: random.shuffle(randomgenelist), any permutation
RandShuffle ==
    /\ pc = "rand_shuffle"
    /\ \E perm \in Permutations(1..Len(randomgenelist)) :
          randomgenelist' = [j \in 1..Len(randomgenelist) |->
                                randomgenelist[perm[j]]]
    /\ pc' = "rand_assign"
    /\ UNCHANGED <<monovars, inputs, genepositions, randomgenesbyscaf,
                   min_block, scaffolds_done, scaffold, i, c, k, walksteps,
                   querypos, subjectpos, refscaffold, syntenylist,
                   accounted_query_genes, accounted_before, blocknum, blocklengths,
                   scaffoldgenecounts, wayout, exit>>

\* lines 173-180: reassign the shuffled names to the positions and return
RandReassign ==
    /\ pc = "rand_assign"
    /\ randomgenesbyscaf' =
          ReassignGenes(querydict, randomgenelist, genepositions)
    /\ pc' = "rand_done"
    /\ UNCHANGED <<monovars, inputs, genepositions, randomgenelist, min_block,
                   scaffolds_done, scaffold, i, c, k, walksteps, querypos,
                   subjectpos, refscaffold, syntenylist, accounted_query_genes, accounted_before,
                   blocknum, blocklengths, scaffoldgenecounts, wayout, exit>>

\* the slot of gene id g on scaffold s in the query indices that are shuffled
RandSlot(s, g) == [start |-> 100 * s + 10 * g, end |-> 100 * s + 10 * g + 5]

\* query indices of one or two scaffolds with one or two genes each; a gene
\* id may be on both scaffolds
RandQueryDicts ==
    LET GeneSets == {G \in SUBSET (1..MaxRandGenes) : Cardinality(G) \in {1, 2}}
    IN  UNION { [S -> GeneSets] : S \in SUBSET {1, 2} }

InitRandomize ==
    /\ \E layout \in RandQueryDicts :
          querydict = [s \in DOMAIN layout |->
                          [g \in layout[s] |-> RandSlot(s, g)]]
    /\ args = [minimum |-> 3, span |-> 5, distance |-> 30000]
    /\ blastdict = << >>
    /\ refdict = << >>
    /\ pc = "rand_collect"
    /\ WalkLocals
    /\ InitRand
    /\ InitMono

NextRand == RandCollect \/ RandShuffle \/ RandReassign

SpecRand == InitRandomize /\ [][NextRand]_vars

(***************************************************************************)
(* Two walks from the same anchor and hit, under args.distance and under   *)
(* the raised distance_hi.                                                 *)
(***************************************************************************)
\* the values the two distances are drawn from
MonoDistances == {15, 170, 250}

\* the hit lists of genes 1..3 in the comparison
MonoHitLists == HitLists \cup { << <<3, 5>>, <<1, 3>> >> }

\* the walk variables at line 241 for anchor index a and hit h, walked first
FreshWalk(a, h) ==
    [walksteps |-> max_span,
     querypos |-> <<transdict[orderedtranslist[a]].start,
                    transdict[orderedtranslist[a]].end>>,
     subjectpos |-> <<refdict[h].start, refdict[h].end>>,
     syntenylist |-> << <<orderedtranslist[a], h>> >>,
     accounted |-> {},
     broke |-> FALSE,
     toofar |-> FALSE]

\* the chain walked from anchor index a and hit h under distance dist
ChainOf(a, h, dist) ==
    WalkFrom(FreshWalk(a, h), a + 1, orderedtranslist, transdict, h,
             refdict[h].scaffold, max_span, dist)

\* the walk from some anchor and one of its hits under args.distance
MonoWalkLo ==
    /\ pc = "mono_lo"
    /\ \E a \in 1..(genesonscaff - 1) :
          /\ orderedtranslist[a] \in DOMAIN blastdict
          /\ \E h \in 1..Len(blastdict[orderedtranslist[a]]) :
                /\ i' = a
                /\ c' = h
                /\ chain_lo' = ChainOf(a, SortedHits(
                                  blastdict[orderedtranslist[a]])[h][1],
                                  max_distance)
    /\ pc' = "mono_hi"
    /\ UNCHANGED <<randvars, inputs, distance_hi, chain_hi, min_block,
                   scaffolds_done, scaffold, k, walksteps, querypos,
                   subjectpos, refscaffold, syntenylist, accounted_query_genes, accounted_before,
                   blocknum, blocklengths, scaffoldgenecounts, wayout, exit>>

\* the walk from the same anchor and hit under distance_hi
MonoWalkHi ==
    /\ pc = "mono_hi"
    /\ chain_hi' = ChainOf(i, blast_refgene, distance_hi)
    /\ pc' = "mono_done"
    /\ UNCHANGED <<randvars, inputs, distance_hi, chain_lo, min_block,
                   scaffolds_done, scaffold, i, c, k, walksteps, querypos,
                   subjectpos, refscaffold, syntenylist, accounted_query_genes, accounted_before,
                   blocknum, blocklengths, scaffoldgenecounts, wayout, exit>>

InitMonotone ==
    /\ args \in [minimum : {2}, span : 0..MaxSpan, distance : MonoDistances]
    /\ distance_hi \in {d \in MonoDistances : d >= args.distance}
    /\ refdict = RefGeneModel
    /\ querydict = QueryDictOf(1 :> {1, 2, 3, 4})
    /\ \E f \in [1..3 -> MonoHitLists], l \in [{4} -> HitListsOfLast] :
          blastdict = BlastDictOf(f @@ l)
    /\ pc = "mono_lo"
    /\ min_block = 2
    /\ scaffolds_done = {1}
    /\ scaffold = 1
    /\ i = 0
    /\ c = 0
    /\ k = 0
    /\ walksteps = 0
    /\ querypos = <<0, 1>>
    /\ subjectpos = <<0, 1>>
    /\ refscaffold = "None"
    /\ syntenylist = << >>
    /\ accounted_query_genes = {}
    /\ accounted_before = {}
    /\ blocknum = 1
    /\ blocklengths = << >>
    /\ scaffoldgenecounts = << >>
    /\ wayout = << >>
    /\ exit = "running"
    /\ InitRand
    /\ chain_lo = << >>
    /\ chain_hi = << >>

NextMono == MonoWalkLo \/ MonoWalkHi

SpecMono == InitMonotone /\ [][NextMono]_vars

(***************************************************************************)
(* The claims.                                                             *)
(***************************************************************************)
Blocks == {wayout[j] : j \in 1..Len(wayout)}
QueryGenesOfBlock(b) == {b.pairs[j][1] : j \in 1..Len(b.pairs)}
RefExtent(r) == <<refdict[r].start, refdict[r].end>>
ScoreOf(g, r) ==
    LET j == CHOOSE j \in 1..Len(blastdict[g]) : blastdict[g][j][1] = r
    IN  blastdict[g][j][2]
EffectiveMinimum == IF args.minimum > 2 THEN args.minimum ELSE 2

\* C1: the sets of query genes of any two blocks written for the same query
\* scaffold are disjoint (no query gene, anchor or extension, is in two blocks
\* of its scaffold).
C1_BlocksDisjoint ==
    \A a, b \in 1..Len(wayout) :
        (a # b /\ wayout[a].scaffold = wayout[b].scaffold)
            => QueryGenesOfBlock(wayout[a]) \cap QueryGenesOfBlock(wayout[b]) = {}

\* C2: every pair of a chain, while it is walked and once it is written, has
\* its reference gene on the reference scaffold of the chain's first pair, which
\* is the scaffold the block reports; a hit on another scaffold is never
\* appended, whatever its score.
C2_OneRefScaffold ==
    /\ \A b \in Blocks : \A j \in 1..Len(b.pairs) :
          /\ refdict[b.pairs[j][2]].scaffold = refdict[b.pairs[1][2]].scaffold
          /\ refdict[b.pairs[j][2]].scaffold = b.refscaffold
    /\ pc \in {"walk", "write"} =>
          \A j \in 1..Len(syntenylist) :
              refdict[syntenylist[j][2]].scaffold = refscaffold

\* C2 witness: a written block holds a pair (g, r) beyond the anchor although
\* g has a hit on another reference scaffold that scores at least as high as r
\* (once tying and sorted before r, once outranking r).
C2_Witness ==
    \E b \in Blocks : \E j \in 2..Len(b.pairs) :
        LET g == b.pairs[j][1]
            r == b.pairs[j][2]
        IN  \E h \in 1..Len(blastdict[g]) :
              /\ refdict[blastdict[g][h][1]].scaffold # refdict[r].scaffold
              /\ blastdict[g][h][2] >= ScoreOf(g, r)

\* the two reference distances between consecutive reference genes
WithinDistance(r_k, r_next) ==
    /\ refdict[r_next].start - refdict[r_k].end <= max_distance
    /\ refdict[r_k].start - refdict[r_next].end <= max_distance

\* C3: in every written block both reference distances between consecutive
\* pairs are within max_distance, and during a walk subjectpos, the extent the
\* next candidate is measured against, is the extent of the reference gene of
\* the chain's last pair, whose consecutive pairs are within distance too.
C3_ConsecutiveWithinDistance ==
    /\ \A b \in Blocks : \A j \in 1..(Len(b.pairs) - 1) :
          WithinDistance(b.pairs[j][2], b.pairs[j + 1][2])
    /\ pc \in {"walk", "write"} =>
          /\ subjectpos = RefExtent(syntenylist[Len(syntenylist)][2])
          /\ \A j \in 1..(Len(syntenylist) - 1) :
                WithinDistance(syntenylist[j][2], syntenylist[j + 1][2])

\* C3 witness: a written block of three pairs whose reference genes are not
\* in ascending order (the backward distance is the positive one), on an input
\* where a gene of the scaffold has a same-scaffold hit that is too far.
C3_Witness ==
    \E b \in Blocks :
        /\ Len(b.pairs) >= 3
        /\ \E j \in 1..(Len(b.pairs) - 1) :
              refdict[b.pairs[j][2]].start > refdict[b.pairs[j + 1][2]].end
        /\ \E g \in DOMAIN blastdict : \E h \in 1..Len(blastdict[g]) :
              /\ refdict[blastdict[g][h][1]].scaffold = b.refscaffold
              /\ refdict[blastdict[g][h][1]].start
                    - refdict[b.pairs[1][2]].end > max_distance

\* C4: every block written and every length counted in the histogram has at
\* least max(args.minimum, 2) pairs; the histogram counts exactly the written
\* blocks and the block numbers are exactly those of the written blocks, so a
\* shorter chain gets no line, no histogram entry and no block number.
C4_MinimumClamped ==
    pc # "main" =>
        /\ min_block = EffectiveMinimum
        /\ \A b \in Blocks : b.blocklen >= EffectiveMinimum
        /\ \A n \in DOMAIN blocklengths :
              /\ n >= EffectiveMinimum
              /\ blocklengths[n] =
                    Cardinality({j \in 1..Len(wayout) : wayout[j].blocklen = n})
        /\ \A j \in 1..Len(wayout) :
              /\ wayout[j].blocknum = j
              /\ wayout[j].blocklen \in DOMAIN blocklengths
        /\ blocknum = Len(wayout) + 1
        /\ pc = "write" /\ Len(syntenylist) < EffectiveMinimum
              => ~KeepBlock(Len(syntenylist), min_block)

\* C4 witness: with a requested minimum below 2, a block of two pairs has been
\* written and the chain just walked, of one pair, was dropped.
C4_Witness ==
    /\ args.minimum < 2
    /\ pc = "hit"
    /\ \E b \in Blocks : b.blocklen = 2
    /\ Len(syntenylist) = 1
    /\ i < genesonscaff
    /\ c > 0
    /\ ~AnchorAccounted(startingtrans, accounted_query_genes)

\* C5: a finished run ended in the fatal "no synteny detected" exit exactly
\* when it wrote no block, and completed normally when it wrote one.
C5_FatalIffNoBlock ==
    pc = "done" =>
        IF Len(wayout) = 0 THEN exit = "NoSynteny" ELSE exit = "ok"

\* the place of gene g in the scaffold's gene order
IndexOf(g) == CHOOSE j \in 1..genesonscaff : orderedtranslist[j] = g

\* C7: max_span is the number of skippable genes: as long as no more than
\* max_span consecutive genes since the chain's last pair went without an
\* accepted match, the walk still has budget to examine the gene that follows
\* (with max_span = 0 the gene right after the last pair is still examined).
C7_SurvivesSpanSkips ==
    pc = "walk" =>
        LET unmatched == k - IndexOf(syntenylist[Len(syntenylist)][1])
        IN  unmatched <= max_span => BudgetLeft(walksteps)

\* the scaffolds whose scan is over
Scanned == IF pc \in {"scaffold", "done"} THEN scaffolds_done
           ELSE scaffolds_done \ {scaffold}

\* the only hit of gene g
OnlyHit(g) == blastdict[g][1][1]

\* scaffold s is collinear: every gene has exactly one hit, the hits lie on one
\* reference scaffold at increasing coordinates in query order, every query
\* gap and every reference gap is within max_distance
Collinear(s) ==
    LET td == querydict[s]
        ord == OrderedTransList(td)
    IN  /\ \A j \in 1..Len(ord) :
              ord[j] \in DOMAIN blastdict /\ Len(blastdict[ord[j]]) = 1
        /\ \A j \in 1..(Len(ord) - 1) :
              LET r == refdict[OnlyHit(ord[j])]
                  r2 == refdict[OnlyHit(ord[j + 1])]
              IN  /\ r.scaffold = r2.scaffold
                  /\ r.start < r2.start
                  /\ r2.start - r.end <= max_distance
                  /\ td[ord[j + 1]].start - td[ord[j]].end <= max_distance

\* C8: once a collinear scaffold of n >= min_block genes has been scanned with
\* max_span >= 1, exactly one block has been written for it, and it pairs all
\* n genes, in query order, with their hits.
C8_CollinearScaffoldOneBlock ==
    \A s \in Scanned :
        (/\ Collinear(s)
         /\ Cardinality(DOMAIN querydict[s]) >= min_block
         /\ max_span >= 1)
        => LET ord == OrderedTransList(querydict[s])
               written == {j \in 1..Len(wayout) : wayout[j].scaffold = s}
           IN  /\ Cardinality(written) = 1
               /\ \A j \in written :
                     wayout[j].pairs =
                        [x \in 1..Len(ord) |-> <<ord[x], OnlyHit(ord[x])>>]

\* C8 witness: a finished run over a collinear scaffold of 3 genes with a
\* minimum of 3 and a span of 1, and its block of 3 pairs.
C8_Witness ==
    /\ pc = "done"
    /\ args.minimum = 3
    /\ max_span = 1
    /\ \E s \in DOMAIN querydict :
          /\ Collinear(s)
          /\ Cardinality(DOMAIN querydict[s]) = 3
          /\ \E b \in Blocks : b.scaffold = s /\ b.blocklen = 3

\* a chain has been walked, and written or dropped, for the hit at hand
ChainWalked ==
    /\ pc = "hit"
    /\ c >= 1
    /\ i < genesonscaff
    /\ ~AnchorAccounted(startingtrans, accounted_query_genes)

HitIndex(g, r) == CHOOSE j \in 1..Len(blastdict[g]) : blastdict[g][j][1] = r

\* hit r of gene g is tried before hit r2: higher score, or the same score
\* and earlier in the file
TriedBefore(g, r, r2) ==
    \/ ScoreOf(g, r) > ScoreOf(g, r2)
    \/ ScoreOf(g, r) = ScoreOf(g, r2) /\ HitIndex(g, r) < HitIndex(g, r2)

IsPrefix(p, q) == Len(p) <= Len(q) /\ \A j \in 1..Len(p) : p[j] = q[j]

CountValue(d, v) == Cardinality({x \in DOMAIN d : d[x] = v})

\* C9: randomize_genes returns an index with the same scaffolds, the same
\* number of genes and the same multiset of slots on each scaffold, and the
\* same multiset of gene ids over all scaffolds.
C9_RandomizePreservesSlots ==
    pc = "rand_done" =>
        /\ DOMAIN randomgenesbyscaf = DOMAIN querydict
        /\ \A s \in DOMAIN querydict :
              /\ Cardinality(DOMAIN randomgenesbyscaf[s])
                    = Cardinality(DOMAIN querydict[s])
              /\ \A g \in DOMAIN querydict[s] :
                    CountValue(randomgenesbyscaf[s], querydict[s][g])
                        = CountValue(querydict[s], querydict[s][g])
        /\ \A g \in GenesOf(querydict) \cup GenesOf(randomgenesbyscaf) :
              Cardinality({s \in DOMAIN randomgenesbyscaf :
                              g \in DOMAIN randomgenesbyscaf[s]})
                  = Cardinality({s \in DOMAIN querydict :
                                    g \in DOMAIN querydict[s]})

\* the step of WRITE LONGEST MATCH that drops the chain
DiscardsChain == pc = "write" /\ ~KeepBlock(Len(syntenylist), min_block)

\* the query genes appended to the chain after its anchor
NonAnchorGenes(synlist) == {synlist[j][1] : j \in 2..Len(synlist)}

\* C11: dropping a chain shorter than min_block leaves the accounted genes as
\* they were when the chain was started, so every gene appended to the dropped
\* chain after its anchor that could be an anchor then can still be one.
C11_DiscardRestoresAccounted ==
    [][DiscardsChain =>
          /\ accounted_query_genes' = accounted_before
          /\ \A g \in NonAnchorGenes(syntenylist) :
                ~AnchorAccounted(g, accounted_before)
                    => ~AnchorAccounted(g, accounted_query_genes')]_vars

\* the reference gene of the pair appended last
LastRef(synlist) == synlist[Len(synlist)][2]

\* next_gene of the pass of the walk that is about to run
NextGeneOfWalk == orderedtranslist[k + 1]

\* the pass reaches the scan of next_gene's hits
ExaminesNext ==
    /\ pc = "walk"
    /\ BudgetLeft(walksteps)
    /\ ~QueryTooFar(transdict[NextGeneOfWalk].start - querypos[2], max_distance)
    /\ NextGeneOfWalk \in DOMAIN blastdict

\* the reference genes next_gene has a hit to
RefsOfNext == {blastdict[NextGeneOfWalk][j][1] :
                  j \in 1..Len(blastdict[NextGeneOfWalk])}

\* C12: the same-homolog test of the walk compares a hit of next_gene with the
\* reference gene of the pair appended last, whatever the length of the
\* chain: a next gene whose best hit is that reference gene is marked
\* accounted and that hit is not appended as a pair, and a next gene without
\* a hit to it is not marked accounted unless one of its hits is appended.
C12_ContinuationAgainstLastRef ==
    [][ExaminesNext =>
          /\ SortedHits(blastdict[NextGeneOfWalk])[1][1] = LastRef(syntenylist)
                => /\ NextGeneOfWalk \in accounted_query_genes'
                   /\ \/ syntenylist' = syntenylist
                      \/ LastRef(syntenylist') # LastRef(syntenylist)
          /\ (LastRef(syntenylist) \notin RefsOfNext
                 /\ syntenylist' = syntenylist)
                => accounted_query_genes' = accounted_query_genes]_vars

\* the scan of the pass that is about to run
ScanOfNext ==
    ScanMatches(SortedHits(blastdict[NextGeneOfWalk]), blast_refgene,
                refscaffold, subjectpos, syntenylist, max_distance)

\* C13: a pass of the walk that takes the same-homolog branch for next_gene
\* marks next_gene accounted and leaves the chain and walksteps as they were,
\* also when the hit to the same homolog is the only hit of next_gene.
C13_ContinuationLeavesChainAndBudget ==
    [][(ExaminesNext /\ ScanOfNext.continued) =>
          /\ NextGeneOfWalk \in accounted_query_genes'
          /\ syntenylist' = syntenylist
          /\ walksteps' = walksteps]_vars

\* the reference genes of the pairs of block b
RefGenesOfBlock(b) == {b.pairs[j][2] : j \in 1..Len(b.pairs)}

\* C14: the reference span written for a block, forward or reverse, is the
\* span of its reference genes: its start is at most its end, its start is
\* the least start and its end the greatest end of the reference genes of
\* the block's pairs.
C14_RefSpanIsMinMax ==
    \A b \in Blocks :
        /\ b.sblockstart <= b.sblockend
        /\ \A r \in RefGenesOfBlock(b) :
              /\ b.sblockstart <= refdict[r].start
              /\ refdict[r].end <= b.sblockend
        /\ \E r \in RefGenesOfBlock(b) : b.sblockstart = refdict[r].start
        /\ \E r \in RefGenesOfBlock(b) : b.sblockend = refdict[r].end

=============================================================================
